---- MODULE Spec2Model ----
(***************************************************************************)
(* Model of the a2d2 ROS data node (src/a2d2/src/ros_data_node.py): the    *)
(* request callback, the per-sensor worker threads, the round-robin        *)
(* dispatcher they share without a lock, and the final flush; and of the   *)
(* bag replay process (src/a2d2/src/rosbag_consumer.py) in remote mode.    *)
(*                                                                         *)
(* Spec        the session with the dispatcher at the granularity at which *)
(*             CPython may switch threads inside __round_robin_sensor.     *)
(* SpecWorker  the session with the record outcomes and the faults of the  *)
(*             collaborators; one submit is one step.                      *)
(* SpecSkipRule  the skip test of line 148 over all values of its inputs.  *)
(* SpecPrefetch  the session of one remote sensor, with the request and    *)
(*             response queues and the fetch process of its read loop.     *)
(* SpecBag     RosbagConsumer.run with s3 = True, its fetch process and    *)
(*             its delete process.                                         *)
(***************************************************************************)
EXTENDS Integers, Sequences, FiniteSets, TLC

\* Bounds of the model: the batches of a manifest, the records of a batch,
\* the records of a manifest, the records of each manifest of a request that
\* names two sensors when the outcomes of the records vary, and the records
\* of all manifests of a request when the dispatcher is interleaved, and the
\* bag messages on the response topic of a bag replay.
MaxBatches == 2
MaxBatchLen == 2
MaxRecords == 3
MaxPairRecords == 1
MaxSessionRecords == 3
MaxBags == 3

BUS_DATA_TYPE == "a2d2_msgs/Bus"
IMAGE_DATA_TYPE == "sensor_msgs/Image"
PCL_DATA_TYPE == "sensor_msgs/PointCloud2"

\* The sensor ids a request may name, and the data type the request gives each.
SensorIds == {"cam", "lidar", "bus"}

DataTypeOf(s) ==
  CASE s = "cam" -> IMAGE_DATA_TYPE
    [] s = "lidar" -> PCL_DATA_TYPE
    [] OTHER -> BUS_DATA_TYPE

NoSensor == ""
NoMsg == <<>>

VARIABLES
  request,        \* self.request (the parsed JSON document)
  data_store,     \* self.data_store['input']: "fs" or "s3"
  manifests,      \* self.manifests: sensor -> batches not yet fetched
  sensor_dict,    \* self.sensor_dict: sensor -> queue of messages
  sensor_list,    \* self.sensor_list
  sensor_active,  \* self.sensor_active
  sensor_index,   \* self.sensor_index (the round-robin cursor)
  round_robin,    \* self.round_robin (the skip set)
  ros_publishers, \* sensors that have a publisher in self.ros_publishers
  hpc,            \* position of the callback thread
  hloc,           \* locals of the callback thread
  thr,            \* sensor -> position and locals of its worker thread
  sink,           \* sensor -> messages published on its publisher, in order
  hist,           \* history: what was submitted, dispatched and processed
  rosbag_consumer \* the RosbagConsumer process: its queues, position and output

vars == <<request, data_store, manifests, sensor_dict, sensor_list, sensor_active,
          sensor_index, round_robin, ros_publishers, hpc, hloc, thr, sink, hist,
          rosbag_consumer>>

----------------------------------------------------------------------------
\* Helpers.

Range(seq) == {seq[i] : i \in 1..Len(seq)}

RECURSIVE SeqSum(_)
SeqSum(seq) == IF seq = <<>> THEN 0 ELSE Head(seq) + SeqSum(Tail(seq))

\* The batches of a manifest whose batches have the sizes `sizes`: the records
\* are numbered 1, 2, ... in manifest order (the number stands for the locator
\* and the timestamp of the record).
RECURSIVE BatchesFrom(_, _)
BatchesFrom(sizes, first) ==
  IF sizes = <<>> THEN <<>>
  ELSE <<[i \in 1..Head(sizes) |-> first + i - 1]>>
       \o BatchesFrom(Tail(sizes), first + Head(sizes))

BatchSizes ==
  {b \in UNION {[1..n -> 0..MaxBatchLen] : n \in 0..MaxBatches} : SeqSum(b) <= MaxRecords}

\* The manifests of the worker specification: any of BatchSizes for a request
\* of one sensor, one batch of at most MaxPairRecords for a request of two.
WorkerBatchSizes(n) ==
  IF n = 1 THEN BatchSizes ELSE {<<k>> : k \in 0..MaxPairRecords}

\* Sequences of distinct sensor ids of length n.
SensorLists(n) == {l \in [1..n -> SensorIds] : \A i, j \in 1..n : i # j => l[i] # l[j]}

\* The sensor lists of the requests: each sensor alone, and each two sensors.
RequestLists ==
  SensorLists(1) \cup {<<"cam", "lidar">>, <<"lidar", "bus">>, <<"bus", "cam">>}

\* manifest.is_open() / manifest.fetch() of the manifest collaborator: open
\* while batches remain; fetch returns the next batch (which may be empty).
is_open(m) == m # <<>>

\* __is_sensor_alive, line 134, over the queues q.
is_sensor_alive(q, k) == q[k] # <<>> \/ sensor_active[k]

\* __is_bus_sensor
is_bus_sensor(k) == request.data_type[k] = BUS_DATA_TYPE

\* A skip rule with no exemption: the candidate is passed over when it is the
\* sensor dispatched last and some other sensor is alive, whatever its type.
SkipCandidateLast(q, c) ==
  /\ hist.disp # <<>>
  /\ hist.disp[Len(hist.disp)].s = c
  /\ \E k \in DOMAIN sensor_active : k # c /\ (q[k] # <<>> \/ sensor_active[k])

\* Line 148: the candidate is passed over when it is in the skip set and some
\* sensor outside the skip set is alive.
SkipCandidate(q, c) ==
  /\ c \in Range(round_robin)
  /\ \E k \in DOMAIN sensor_active : k \notin Range(round_robin) /\ is_sensor_alive(q, k)

\* Lines 202-204: the skip set after the maintenance step of __publish_ros_msg.
RoundRobinMaint(q, rr) ==
  LET sensors == {k \in DOMAIN sensor_active : ~is_bus_sensor(k) /\ is_sensor_alive(q, k)}
  IN IF Len(rr) >= Cardinality(sensors) /\ rr # <<>> THEN Tail(rr) ELSE rr

\* The locals of a worker thread. req, resp and reader are the two queues and
\* the fetch process of a remote read loop (lines 294-298, 366-370); toput
\* is the part of the batch whose locators are not yet on req; closes counts
\* the close markers the worker has put on req. ready records whether some
\* sensor queue held a message when the scan of the current submit began.
ThreadInit ==
  [pc |-> "none", files |-> <<>>, msg |-> NoMsg, k |-> 0, tmp |-> 0,
   cand |-> NoSensor, sel |-> NoMsg, failed |-> FALSE, nbatch |-> 0,
   req |-> <<>>, resp |-> <<>>, reader |-> "none", toput |-> <<>>, closes |-> 0,
   ready |-> FALSE]

\* submitted: per sensor, the records whose message was appended to its queue.
\* disp: the pops of the submit path in order, each with the sensors whose
\*       queue was non-empty and the sensors whose flag was set when it
\*       happened.
\* nan: per sensor, the records whose cloud had a NaN coordinate.
\* last: per sensor, the record the worker handled last, with its outcome.
\* errors: the sensors whose setup or worker has hit an unexpected error.
\* flushes: the calls of __flush_sensors.
\* handled: per sensor, the records a remote read loop has been through.
\* The RosbagConsumer of rosbag_consumer.py in remote mode (s3 = True), lines
\* 44-65, before run(): topic stands for the messages the KafkaConsumer has
\* yet to deliver, msg for the message the loop of run() is handling,
\* published for the bags whose messages were published, in order, and
\* requested for the bags put on s3_read_req.
ConsumerNotStarted ==
  [pc |-> "none", topic |-> <<>>, msg |-> "", s3_read_req |-> <<>>,
   s3_read_resp |-> <<>>, s3_delete_req |-> <<>>, s3_reader |-> "none",
   s3_deleter |-> "none", published |-> <<>>, requested |-> <<>>]

HistInit ==
  [submitted |-> [s \in SensorIds |-> <<>>],
   disp |-> <<>>,
   last |-> [s \in SensorIds |-> <<>>],
   nan |-> [s \in SensorIds |-> {}],
   errors |-> {},
   flushes |-> 0,
   handled |-> [s \in SensorIds |-> <<>>],
   popEmpty |-> FALSE,
   flushRaised |-> FALSE,
   rejected |-> FALSE]

Msg(s, r) == <<s, r>>

Ready == {k \in DOMAIN sensor_dict : sensor_dict[k] # <<>>}

Active == {k \in DOMAIN sensor_active : sensor_active[k]}

----------------------------------------------------------------------------
\* The request documents and validate_data_request.

RequiredFields == {"sensor_id", "ros_topic", "data_type", "preview"}

\* validate_data_request(request): raises unless every required field is
\* present and every data type is one the node can publish.
validate_data_request(req) ==
  /\ RequiredFields \subseteq req.present
  /\ \A s \in Range(req.sensor_id) :
       req.data_type[s] \in {IMAGE_DATA_TYPE, PCL_DATA_TYPE, BUS_DATA_TYPE}

RequestOf(sensors, present, preview, image, lidar_view) ==
  [sensor_id |-> sensors, present |-> present,
   data_type |-> [s \in Range(sensors) |-> DataTypeOf(s)],
   preview |-> preview, image |-> image, lidar_view |-> lidar_view]

----------------------------------------------------------------------------
\* The callback thread: data_request_cb, __handle_request, __flush_sensors.

\* data_request_cb calling __handle_request whatever the validation says.
data_request_cb_unvalidated ==
  /\ hpc = "recv"
  /\ hpc' = "init"
  /\ UNCHANGED <<rosbag_consumer, request, data_store, manifests, sensor_dict, sensor_list,
                 sensor_active, sensor_index, round_robin, ros_publishers, hloc,
                 thr, sink, hist>>

\* data_request_cb, lines 482-499: a request that fails validation raises
\* before __handle_request is called.
data_request_cb ==
  /\ hpc = "recv"
  /\ IF validate_data_request(request)
     THEN hpc' = "init" /\ hist' = hist
     ELSE hpc' = "returned" /\ hist' = [hist EXCEPT !.rejected = TRUE]
  /\ UNCHANGED <<rosbag_consumer, request, data_store, manifests, sensor_dict, sensor_list,
                 sensor_active, sensor_index, round_robin, ros_publishers, hloc,
                 thr, sink>>

\* init_request, lines 76-92, and the reads of the request at lines 100-103,
\* which raise KeyError when a field is missing.
init_request ==
  /\ hpc = "init"
  /\ sensor_dict' = [s \in Range(request.sensor_id) |-> <<>>]
  /\ sensor_list' = request.sensor_id
  /\ sensor_active' = [s \in Range(request.sensor_id) |-> TRUE]
  /\ sensor_index' = 0
  /\ round_robin' = <<>>
  /\ ros_publishers' = {}
  /\ hpc' = IF RequiredFields \subseteq request.present THEN "start" ELSE "returned"
  /\ hloc' = [hloc EXCEPT !.i = 1]
  /\ UNCHANGED <<rosbag_consumer, request, data_store, manifests, thr, sink, hist>>

\* Lines 105-118: one turn of the loop that creates the publisher of a sensor
\* and starts its worker thread.
start_worker ==
  /\ hpc = "start"
  /\ IF hloc.i <= Len(request.sensor_id)
     THEN LET sensor == request.sensor_id[hloc.i] IN
          /\ ros_publishers' = ros_publishers \cup {sensor}
          /\ thr' = [thr EXCEPT ![sensor].pc = "begin"]
          /\ hloc' = [hloc EXCEPT !.i = hloc.i + 1]
          /\ hpc' = hpc
     ELSE /\ hpc' = "join"
          /\ hloc' = [hloc EXCEPT !.i = 1]
          /\ UNCHANGED <<ros_publishers, thr>>
  /\ UNCHANGED <<rosbag_consumer, request, data_store, manifests, sensor_dict, sensor_list,
                 sensor_active, sensor_index, round_robin, sink, hist>>

\* Lines 120-126: t.join() for the tasks in start order; then the call of
\* __flush_sensors.
join_worker ==
  /\ hpc = "join"
  /\ IF hloc.i <= Len(request.sensor_id)
     THEN /\ thr[request.sensor_id[hloc.i]].pc = "done"
          /\ hloc' = [hloc EXCEPT !.i = hloc.i + 1]
          /\ hpc' = hpc
          /\ hist' = hist
     ELSE /\ hpc' = "flush"
          /\ hloc' = [hloc EXCEPT !.k = 0, !.flushed = 0, !.sensor = NoSensor,
                                  !.msg = NoMsg]
          /\ hist' = [hist EXCEPT !.flushes = @ + 1]
  /\ UNCHANGED <<rosbag_consumer, request, data_store, manifests, sensor_dict, sensor_list,
                 sensor_active, sensor_index, round_robin, ros_publishers, thr,
                 sink>>

\* front.msg at line 174: the queue holds the ROS messages themselves, so the
\* attribute read either yields a value (the message type has a field msg,
\* taken here to stand for the message) or raises AttributeError.
MsgAttrOutcomes == BOOLEAN

\* __flush_sensors, lines 168-183: one turn of the loop over range(_nsensors);
\* the exception of line 174 leaves through lines 186-191 and 127-131.
flush_sensors ==
  /\ hpc = "flush"
  /\ LET n == Len(sensor_list) IN
     IF hloc.k >= n \/ hloc.flushed = n
     THEN /\ hpc' = "returned"
          /\ UNCHANGED <<sensor_dict, sensor_index, sink, hloc, hist>>
     ELSE LET idx == (sensor_index + 1) % n
              s == sensor_list[idx + 1]
          IN
          /\ sensor_index' = idx
          /\ IF sensor_dict[s] # <<>>
             THEN \E attr \in MsgAttrOutcomes :
                  /\ sensor_dict' = [sensor_dict EXCEPT ![s] = Tail(@)]
                  /\ IF attr
                     THEN /\ hloc' = [hloc EXCEPT !.k = @ + 1, !.sensor = s,
                                                  !.msg = Head(sensor_dict[s])]
                          /\ sink' = [sink EXCEPT ![s] = Append(@, Head(sensor_dict[s]))]
                          /\ hpc' = hpc
                          /\ hist' = hist
                     ELSE /\ hpc' = "returned"
                          /\ hist' = [hist EXCEPT !.flushRaised = TRUE]
                          /\ UNCHANGED <<hloc, sink>>
             ELSE /\ hloc' = [hloc EXCEPT !.k = @ + 1, !.flushed = @ + 1]
                  /\ sink' = IF hloc.sensor # NoSensor /\ hloc.msg # NoMsg
                             THEN [sink EXCEPT ![hloc.sensor] = Append(@, hloc.msg)]
                             ELSE sink
                  /\ hpc' = hpc
                  /\ UNCHANGED <<sensor_dict, hist>>
  /\ UNCHANGED <<rosbag_consumer, request, data_store, manifests, sensor_list, sensor_active,
                 round_robin, ros_publishers, thr>>

----------------------------------------------------------------------------
\* The worker thread of a sensor: __publish_sensor and the read loops.

\* __publish_sensor, lines 467-475: the branch on the data type; the loops of
\* the three branches have the same shape.
publish_sensor(s) ==
  /\ thr[s].pc = "begin"
  /\ thr' = [thr EXCEPT ![s].pc = "fetch"]
  /\ UNCHANGED <<rosbag_consumer, request, data_store, manifests, sensor_dict, sensor_list,
                 sensor_active, sensor_index, round_robin, ros_publishers, hpc,
                 hloc, sink, hist>>

\* `while not files and manifest.is_open(): files = manifest.fetch()` and
\* `if not files: break` (lines 246-251, 303-308, 375-380, 410-415, 445-450):
\* one fetch per step.
fetch(s) ==
  /\ thr[s].pc = "fetch"
  /\ IF is_open(manifests[s])
     THEN /\ manifests' = [manifests EXCEPT ![s] = Tail(@)]
          /\ thr' = [thr EXCEPT ![s].files = Head(manifests[s]),
                                ![s].pc = IF Head(manifests[s]) # <<>> THEN "rec" ELSE "fetch",
                                ![s].nbatch = IF Head(manifests[s]) # <<>> THEN @ + 1 ELSE @]
     ELSE /\ thr' = [thr EXCEPT ![s].pc = "deact"]
          /\ UNCHANGED manifests
  /\ UNCHANGED <<rosbag_consumer, request, data_store, sensor_dict, sensor_list, sensor_active,
                 sensor_index, round_robin, ros_publishers, hpc, hloc, sink, hist>>

\* The end of a batch: `if self.request['preview']: break` (lines 265, 320,
\* 391, 426, 462), else the next turn of `while True`.
batch_done(s) ==
  /\ thr[s].pc = "rec"
  /\ thr[s].files = <<>>
  /\ thr' = [thr EXCEPT ![s].pc = IF request.preview THEN "deact" ELSE "fetch"]
  /\ UNCHANGED <<rosbag_consumer, request, data_store, manifests, sensor_dict, sensor_list,
                 sensor_active, sensor_index, round_robin, ros_publishers, hpc,
                 hloc, sink, hist>>

\* self.sensor_active[sensor] = False (lines 268, 328, 399, 429, 465) and the
\* return of the thread.
deactivate(s) ==
  /\ thr[s].pc = "deact"
  /\ sensor_active' = [sensor_active EXCEPT ![s] = FALSE]
  /\ thr' = [thr EXCEPT ![s].pc = "done"]
  /\ UNCHANGED <<rosbag_consumer, request, data_store, manifests, sensor_dict, sensor_list,
                 sensor_index, round_robin, ros_publishers, hpc, hloc, sink, hist>>

----------------------------------------------------------------------------
\* __publish_ros_msg and __round_robin_sensor, one step per read or write of
\* the shared state: the threads hold no lock, so a thread switch may fall
\* between any two of them.

\* The next record of the batch converts to a message and the worker calls
\* __publish_ros_msg (lines 263, 283, 355, 423, 455 through 218, 333).
call_publish(s) ==
  /\ thr[s].pc = "rec"
  /\ thr[s].files # <<>>
  /\ thr' = [thr EXCEPT ![s].files = Tail(@), ![s].msg = Msg(s, Head(thr[s].files)),
                        ![s].pc = "rr_append"]
  /\ hist' = [hist EXCEPT !.last[s] = <<Head(thr[s].files), "ok">>]
  /\ UNCHANGED <<rosbag_consumer, request, data_store, manifests, sensor_dict, sensor_list,
                 sensor_active, sensor_index, round_robin, ros_publishers, hpc,
                 hloc, sink>>

\* Line 138: self.sensor_dict[sensor].append(msg).
rr_append(s) ==
  /\ thr[s].pc = "rr_append"
  /\ sensor_dict' = [sensor_dict EXCEPT ![s] = Append(@, thr[s].msg)]
  /\ thr' = [thr EXCEPT ![s].pc = "rr_load", ![s].k = 0, ![s].sel = NoMsg,
                        ![s].cand = NoSensor]
  /\ hist' = [hist EXCEPT !.submitted[s] = Append(@, thr[s].msg[2])]
  /\ UNCHANGED <<rosbag_consumer, request, data_store, manifests, sensor_list, sensor_active,
                 sensor_index, round_robin, ros_publishers, hpc, hloc, sink>>

\* Lines 145-146: the next turn of `for _ in self.sensor_list` reads
\* self.sensor_index; after len(sensor_list) turns the loop ends with no
\* message selected.
rr_load(s) ==
  /\ thr[s].pc = "rr_load"
  /\ IF thr[s].k < Len(sensor_list)
     THEN thr' = [thr EXCEPT ![s].tmp = sensor_index, ![s].k = @ + 1,
                             ![s].pc = "rr_store",
                             ![s].ready = IF thr[s].k = 0 THEN Ready # {} ELSE @]
     ELSE thr' = [thr EXCEPT ![s].pc = "pub", ![s].cand = NoSensor]
  /\ UNCHANGED <<rosbag_consumer, request, data_store, manifests, sensor_dict, sensor_list,
                 sensor_active, sensor_index, round_robin, ros_publishers, hpc,
                 hloc, sink, hist>>

\* rr_store advancing the cursor by two positions.
rr_store_twice(s) ==
  /\ thr[s].pc = "rr_store"
  /\ sensor_index' = (thr[s].tmp + 2) % Len(sensor_list)
  /\ thr' = [thr EXCEPT ![s].pc = "rr_pick"]
  /\ UNCHANGED <<rosbag_consumer, request, data_store, manifests, sensor_dict, sensor_list,
                 sensor_active, round_robin, ros_publishers, hpc, hloc, sink, hist>>

\* Line 146: self.sensor_index = (<value read> + 1) % _nsensors.
rr_store(s) ==
  /\ thr[s].pc = "rr_store"
  /\ sensor_index' = (thr[s].tmp + 1) % Len(sensor_list)
  /\ thr' = [thr EXCEPT ![s].pc = "rr_pick"]
  /\ UNCHANGED <<rosbag_consumer, request, data_store, manifests, sensor_dict, sensor_list,
                 sensor_active, round_robin, ros_publishers, hpc, hloc, sink, hist>>

\* Line 147: _sensor = self.sensor_list[self.sensor_index].
rr_pick(s) ==
  /\ thr[s].pc = "rr_pick"
  /\ thr' = [thr EXCEPT ![s].cand = sensor_list[sensor_index + 1], ![s].pc = "rr_test"]
  /\ UNCHANGED <<rosbag_consumer, request, data_store, manifests, sensor_dict, sensor_list,
                 sensor_active, sensor_index, round_robin, ros_publishers, hpc,
                 hloc, sink, hist>>

\* Lines 148-151: the skip test and `if self.sensor_dict[_sensor]`.
rr_test(s) ==
  /\ thr[s].pc = "rr_test"
  /\ thr' = [thr EXCEPT ![s].pc =
                IF SkipCandidate(sensor_dict, thr[s].cand) THEN "rr_load"
                ELSE IF sensor_dict[thr[s].cand] # <<>> THEN "rr_pop" ELSE "rr_load"]
  /\ UNCHANGED <<rosbag_consumer, request, data_store, manifests, sensor_dict, sensor_list,
                 sensor_active, sensor_index, round_robin, ros_publishers, hpc,
                 hloc, sink, hist>>

\* Line 152: msg = self.sensor_dict[_sensor].pop(0). On an empty list pop
\* raises IndexError, which leaves __publish_ros_msg through lines 206-211
\* and is swallowed by the caller (lines 219, 334, 456).
rr_pop(s) ==
  /\ thr[s].pc = "rr_pop"
  /\ LET c == thr[s].cand IN
     IF sensor_dict[c] # <<>>
     THEN /\ sensor_dict' = [sensor_dict EXCEPT ![c] = Tail(@)]
          /\ thr' = [thr EXCEPT ![s].sel = Head(sensor_dict[c]), ![s].pc = "pub"]
          /\ hist' = [hist EXCEPT !.disp = Append(@, [s |-> c, ready |-> Ready,
                                                        active |-> Active])]
     ELSE /\ thr' = [thr EXCEPT ![s].pc = "rec"]
          /\ hist' = [hist EXCEPT !.popEmpty = TRUE]
          /\ UNCHANGED sensor_dict
  /\ UNCHANGED <<rosbag_consumer, request, data_store, manifests, sensor_list, sensor_active,
                 sensor_index, round_robin, ros_publishers, hpc, hloc, sink>>

\* Lines 199-204: publish the selected message on the publisher of its
\* sensor, then the maintenance of the skip set.
publish_ros_msg(s) ==
  /\ thr[s].pc = "pub"
  /\ sink' = IF thr[s].cand # NoSensor /\ thr[s].sel # NoMsg
             THEN [sink EXCEPT ![thr[s].cand] = Append(@, thr[s].sel)]
             ELSE sink
  /\ round_robin' = RoundRobinMaint(sensor_dict, round_robin)
  /\ thr' = [thr EXCEPT ![s].pc = "rec"]
  /\ UNCHANGED <<rosbag_consumer, request, data_store, manifests, sensor_dict, sensor_list,
                 sensor_active, sensor_index, ros_publishers, hpc, hloc, hist>>

----------------------------------------------------------------------------
\* The session with the interleaved dispatcher.

\* Requests of the interleaved specification: well formed or lacking
\* data_type, over one or two sensors.
Requests ==
  {RequestOf(l, p, FALSE, "original", "camera") :
     l \in RequestLists,
     p \in {RequiredFields, RequiredFields \ {"data_type"}}}

Init ==
  /\ request \in Requests
  /\ data_store = "fs"
  /\ \E sz \in [Range(request.sensor_id) -> {<<n>> : n \in 1..MaxBatchLen}] :
       /\ SeqSum([i \in 1..Len(request.sensor_id) |-> sz[request.sensor_id[i]][1]])
            <= MaxSessionRecords
       /\ manifests = [s \in SensorIds |->
                         IF s \in DOMAIN sz THEN BatchesFrom(sz[s], 1) ELSE <<>>]
  /\ sensor_dict = <<>>
  /\ sensor_list = <<>>
  /\ sensor_active = <<>>
  /\ sensor_index = 0
  /\ round_robin = <<>>
  /\ ros_publishers = {}
  /\ hpc = "recv"
  /\ hloc = [i |-> 0, k |-> 0, flushed |-> 0, sensor |-> NoSensor, msg |-> NoMsg]
  /\ thr = [s \in SensorIds |-> ThreadInit]
  /\ sink = [s \in SensorIds |-> <<>>]
  /\ hist = HistInit
  /\ rosbag_consumer = ConsumerNotStarted

Worker(s) ==
  \/ publish_sensor(s)
  \/ fetch(s)
  \/ batch_done(s)
  \/ deactivate(s)
  \/ call_publish(s)
  \/ rr_append(s)
  \/ rr_load(s)
  \/ rr_store(s)
  \/ rr_pick(s)
  \/ rr_test(s)
  \/ rr_pop(s)
  \/ publish_ros_msg(s)

Next ==
  \/ data_request_cb
  \/ init_request
  \/ start_worker
  \/ join_worker
  \/ flush_sensors
  \/ \E s \in SensorIds : Worker(s)

Spec == Init /\ [][Next]_vars

----------------------------------------------------------------------------
\* Delivery.

Count(seq, x) == Cardinality({i \in 1..Len(seq) : seq[i] = x})

\* C1: when the session handler has returned, every message a worker
\* submitted has been published on the sink of its sensor exactly once.
ExactlyOnceDelivery ==
  hpc = "returned" =>
    \A s \in DOMAIN sensor_dict :
      \A i \in 1..Len(hist.submitted[s]) :
        Count(sink[s], Msg(s, hist.submitted[s][i])) = 1

\* C3: when the flusher has run and the handler has returned, every sensor
\* queue is empty.
FlusherLeavesQueuesEmpty ==
  hpc = "returned" => \A s \in DOMAIN sensor_dict : sensor_dict[s] = <<>>

----------------------------------------------------------------------------
\* Fairness of the dispatch order. hist.disp[i].s is the sensor whose message
\* the i-th dispatch selected, hist.disp[i].ready the sensors that had a
\* queued message at that dispatch.

NonTelemetry == {k \in DOMAIN sensor_active : ~is_bus_sensor(k)}

\* The non-telemetry sensors that had a queued message at every dispatch
\* from the i-th to the j-th.
ReadyThroughout(i, j) ==
  {k \in NonTelemetry : \A m \in i..j : k \in hist.disp[m].ready}

\* C2: while K >= 2 non-telemetry sensors each have a queued message at every
\* dispatch, none of them is dispatched a second time before each of the
\* others has been dispatched once.
RoundRobinFairness ==
  \A i, j \in 1..Len(hist.disp) :
    (/\ i < j
     /\ hist.disp[i].s = hist.disp[j].s
     /\ hist.disp[i].s \in ReadyThroughout(i, j)
     /\ Cardinality(ReadyThroughout(i, j)) >= 2)
    => ReadyThroughout(i, j) \ {hist.disp[i].s}
         \subseteq {hist.disp[m].s : m \in (i + 1)..(j - 1)}

\* C7: no sensor is dispatched by two consecutive dispatches while another
\* sensor has a queued message at both.
InterleavedDelivery ==
  \A i \in 1..(Len(hist.disp) - 1) :
    hist.disp[i].s = hist.disp[i + 1].s =>
      ~\E t \in DOMAIN sensor_dict :
          /\ t # hist.disp[i].s
          /\ t \in hist.disp[i].ready
          /\ t \in hist.disp[i + 1].ready

----------------------------------------------------------------------------
\* The worker with the outcomes of its records and the faults of its
\* collaborators. One call of __publish_ros_msg is one step here.

TypeOf(s) == request.data_type[s]

\* What converting one record can come to:
\*   "ok"       it decodes and converts to a message;
\*   "nan"      a point cloud that decodes and has a NaN coordinate;
\*   "badconv"  reading, decoding, undistorting or parsing it raises;
\*   "badmsg"   building the ROS message from the converted data raises.
\* Local images: undistort_image (line 259) is called only in "undistorted"
\* mode. Remote images: cv2 is not imported by the module, so cv2.imread at
\* line 276 raises NameError for every record.
RecordOutcomes(s) ==
  CASE TypeOf(s) = IMAGE_DATA_TYPE /\ data_store = "fs" ->
         {"ok", "badmsg"} \cup (IF request.image = "undistorted" THEN {"badconv"} ELSE {})
    [] TypeOf(s) = IMAGE_DATA_TYPE /\ data_store = "s3" -> {"badconv"}
    [] TypeOf(s) = PCL_DATA_TYPE -> {"ok", "nan", "badconv", "badmsg"}
    [] OTHER -> {"ok", "badconv"}

\* NanFree without the test.
NanFreeAlways(kind) == TRUE

\* `if not np.isnan(points).any()`, lines 354 and 422.
NanFree(kind) == kind # "nan"

\* The exception of a conversion leaves the whole worker when no try block
\* of the read loop encloses it: undistort_image at lines 259-260 and
\* parse_pcl_npz at lines 420-421 of the local loops. The remote loops
\* (lines 274-290, 348-362) and the bus loop (453-460) enclose the whole
\* record; __publish_image_msg and __publish_pcl_msg enclose the message
\* construction (lines 215-223, 331-338).
ConversionAborts(s, kind) ==
  /\ kind = "badconv"
  /\ data_store = "fs"
  /\ TypeOf(s) \in {IMAGE_DATA_TYPE, PCL_DATA_TYPE}

\* What the read loop does with a record of the given outcome.
RecordFate(s, kind) ==
  IF ConversionAborts(s, kind) THEN "abort"
  ELSE IF kind \in {"badconv", "badmsg"} THEN "skip"
  ELSE IF TypeOf(s) = PCL_DATA_TYPE /\ ~NanFree(kind) THEN "skip"
  ELSE "submit"

\* Lines 143-154 run without a thread switch: the cursor after the scan and
\* the sensor selected (NoSensor when the scan selects none), from cursor
\* idx with k turns of the loop done, over the queues q.
\* A scan that examines only the slot after the cursor.
ScanOneTurn(q, idx, k) ==
  LET nidx == (idx + 1) % Len(sensor_list)
      c == sensor_list[nidx + 1]
  IN IF ~SkipCandidate(q, c) /\ q[c] # <<>> THEN [idx |-> nidx, cand |-> c]
     ELSE [idx |-> nidx, cand |-> NoSensor]

RECURSIVE Scan(_, _, _)
Scan(q, idx, k) ==
  IF k >= Len(sensor_list) THEN [idx |-> idx, cand |-> NoSensor]
  ELSE LET nidx == (idx + 1) % Len(sensor_list)
           c == sensor_list[nidx + 1]
       IN IF SkipCandidate(q, c) THEN Scan(q, nidx, k + 1)
          ELSE IF q[c] # <<>> THEN [idx |-> nidx, cand |-> c]
          ELSE Scan(q, nidx, k + 1)

\* __publish_ros_msg(sensor=s, msg=m), lines 196-204, run without a thread
\* switch; h is the history to extend.
Submit(s, m, h) ==
  LET q1 == [sensor_dict EXCEPT ![s] = Append(@, m)]
      sc == Scan(q1, sensor_index, 0)
      q2 == IF sc.cand = NoSensor THEN q1 ELSE [q1 EXCEPT ![sc.cand] = Tail(@)]
  IN /\ sensor_dict' = q2
     /\ sensor_index' = sc.idx
     /\ sink' = IF sc.cand = NoSensor THEN sink
                ELSE [sink EXCEPT ![sc.cand] = Append(@, Head(q1[sc.cand]))]
     /\ round_robin' = RoundRobinMaint(q2, round_robin)
     /\ hist' = [h EXCEPT !.submitted[s] = Append(@, m[2]),
                          !.disp = IF sc.cand = NoSensor THEN @
                                   ELSE Append(@, [s |-> sc.cand,
                                                   ready |-> {k \in DOMAIN q1 : q1[k] # <<>>},
                                                   active |-> Active])]

\* Whether the worker of s looks up calibration data before its loop: lines
\* 243-244 and 301 (image "undistorted"), 373 and 408 (lidar_view "vehicle").
NeedsCalibration(s) ==
  \/ TypeOf(s) = IMAGE_DATA_TYPE /\ request.image = "undistorted"
  \/ TypeOf(s) = PCL_DATA_TYPE /\ request.lidar_view = "vehicle"

\* __get_camera_info or __sensor_to_vehicle_matrix raises (the calibration
\* document has no entry for the sensor): the exception ends the worker
\* through lines 476-480, which do not touch sensor_active.
setup_fail(s) ==
  /\ thr[s].pc = "begin"
  /\ NeedsCalibration(s)
  /\ thr' = [thr EXCEPT ![s].pc = "done", ![s].failed = TRUE]
  /\ hist' = [hist EXCEPT !.errors = @ \cup {s}]
  /\ UNCHANGED <<rosbag_consumer, request, data_store, manifests, sensor_dict, sensor_list,
                 sensor_active, sensor_index, round_robin, ros_publishers, hpc,
                 hloc, sink>>

\* One record of the current batch, with its outcome: the loops at lines
\* 256-263, 273-290, 347-362, 418-424 and 452-460.
record(s) ==
  /\ thr[s].pc = "rec"
  /\ thr[s].files # <<>>
  /\ \E kind \in RecordOutcomes(s) :
       LET r == Head(thr[s].files)
           h == [hist EXCEPT !.last[s] = <<r, kind>>,
                             !.nan[s] = IF kind = "nan" THEN @ \cup {r} ELSE @]
           fate == RecordFate(s, kind)
       IN CASE fate = "abort" ->
                 /\ thr' = [thr EXCEPT ![s].pc = "done", ![s].failed = TRUE]
                 /\ hist' = [h EXCEPT !.errors = @ \cup {s}]
                 /\ UNCHANGED <<sensor_dict, sensor_index, sink, round_robin>>
            [] fate = "skip" ->
                 /\ thr' = [thr EXCEPT ![s].files = Tail(@)]
                 /\ hist' = h
                 /\ UNCHANGED <<sensor_dict, sensor_index, sink, round_robin>>
            [] OTHER ->
                 /\ thr' = [thr EXCEPT ![s].files = Tail(@)]
                 /\ Submit(s, Msg(s, r), h)
  /\ UNCHANGED <<rosbag_consumer, request, data_store, manifests, sensor_list, sensor_active,
                 ros_publishers, hpc, hloc>>

\* create_manifest raises at line 87 for the j-th sensor of the request (its
\* manifest cannot be opened): init_request has made the state of the
\* sensors before it, and the exception ends __handle_request at lines
\* 127-131 before any worker is started.
init_request_fail ==
  /\ hpc = "init"
  /\ \E j \in 1..Len(request.sensor_id) :
       LET made == {request.sensor_id[i] : i \in 1..(j - 1)} IN
       /\ sensor_dict' = [s \in made |-> <<>>]
       /\ sensor_list' = SubSeq(request.sensor_id, 1, j - 1)
       /\ sensor_active' = [s \in made |-> TRUE]
       /\ hist' = [hist EXCEPT !.errors = @ \cup {request.sensor_id[j]}]
  /\ sensor_index' = 0
  /\ round_robin' = <<>>
  /\ hpc' = "returned"
  /\ UNCHANGED <<rosbag_consumer, request, data_store, manifests, ros_publishers, hloc, thr, sink>>

\* The image and lidar_view modes vary where the request names a sensor that
\* reads them.
WorkerRequests ==
  {rq \in {RequestOf(l, RequiredFields, pv, im, lv) :
             l \in RequestLists,
             pv \in BOOLEAN,
             im \in {"original", "undistorted"},
             lv \in {"camera", "vehicle"}} :
      /\ ("cam" \notin Range(rq.sensor_id) => rq.image = "original")
      /\ ("lidar" \notin Range(rq.sensor_id) => rq.lidar_view = "camera")}
  \cup {RequestOf(l, RequiredFields \ {"data_type"}, FALSE, "original", "camera") :
          l \in SensorLists(1)}

InitWorker ==
  /\ request \in WorkerRequests
  /\ data_store \in {"fs", "s3"}
  /\ \E sz \in [Range(request.sensor_id) -> WorkerBatchSizes(Len(request.sensor_id))] :
       manifests = [s \in SensorIds |->
                      IF s \in DOMAIN sz THEN BatchesFrom(sz[s], 1) ELSE <<>>]
  /\ sensor_dict = <<>>
  /\ sensor_list = <<>>
  /\ sensor_active = <<>>
  /\ sensor_index = 0
  /\ round_robin = <<>>
  /\ ros_publishers = {}
  /\ hpc = "recv"
  /\ hloc = [i |-> 0, k |-> 0, flushed |-> 0, sensor |-> NoSensor, msg |-> NoMsg]
  /\ thr = [s \in SensorIds |-> ThreadInit]
  /\ sink = [s \in SensorIds |-> <<>>]
  /\ hist = HistInit
  /\ rosbag_consumer = ConsumerNotStarted

NextWorker ==
  \/ data_request_cb
  \/ init_request
  \/ init_request_fail
  \/ start_worker
  \/ join_worker
  \/ flush_sensors
  \/ \E s \in SensorIds :
       \/ publish_sensor(s)
       \/ setup_fail(s)
       \/ fetch(s)
       \/ record(s)
       \/ batch_done(s)
       \/ deactivate(s)

SpecWorker == InitWorker /\ [][NextWorker]_vars

----------------------------------------------------------------------------
\* The read loops.

Failed(kind) == kind \in {"badconv", "badmsg"}

\* C4: in preview mode every worker handles the records of at most one
\* batch, and a worker that has stopped has marked its sensor inactive.
PreviewOneBatch ==
  request.preview =>
    \A s \in DOMAIN sensor_active :
      /\ thr[s].nbatch <= 1
      /\ (thr[s].pc = "done" => ~sensor_active[s])

\* C5: a decoded point cloud is submitted if and only if it has no NaN
\* coordinate: a cloud found to have one is never among the submitted, a
\* cloud that converts and has none is submitted when it is handled, and the
\* worker is not stopped by a cloud with a NaN.
NanPolicy ==
  \A s \in DOMAIN sensor_active :
    TypeOf(s) = PCL_DATA_TYPE =>
      /\ hist.nan[s] \cap Range(hist.submitted[s]) = {}
      /\ (hist.last[s] # <<>> /\ hist.last[s][2] = "ok"
            => hist.last[s][1] \in Range(hist.submitted[s]))
      /\ (hist.last[s] # <<>> /\ hist.last[s][2] = "nan" => ~thr[s].failed)

\* C5 witness: in the remote path a cloud with a NaN was skipped and a later
\* cloud of the same worker was submitted.
NanSkippedThenSubmitted ==
  \E s \in DOMAIN sensor_active :
    /\ TypeOf(s) = PCL_DATA_TYPE
    /\ data_store = "s3"
    /\ hist.last[s] # <<>>
    /\ hist.last[s][2] = "ok"
    /\ hist.last[s][1] \in Range(hist.submitted[s])
    /\ \E r \in hist.nan[s] : r < hist.last[s][1]

\* C6: for a request that fails validation no per-sensor state is created,
\* no worker is started and nothing is published, at any time.
InvalidRequestRejectedFirst ==
  ~validate_data_request(request) =>
    /\ DOMAIN sensor_dict = {}
    /\ DOMAIN sensor_active = {}
    /\ sensor_list = <<>>
    /\ ros_publishers = {}
    /\ \A s \in SensorIds : thr[s].pc = "none" /\ sink[s] = <<>>
    /\ hpc \in {"recv", "returned"}

\* C6 witness: the callback has returned from a request without data_type.
InvalidRequestReturned ==
  /\ "data_type" \notin request.present
  /\ hpc = "returned"
  /\ hist.rejected

\* C9: the failure of one record never ends the worker: a worker whose last
\* record failed to convert has not been ended by an exception.
RecordFailureIsolated ==
  \A s \in DOMAIN sensor_active :
    (hist.last[s] # <<>> /\ Failed(hist.last[s][2])) => ~thr[s].failed

\* C10: when the handler has returned, every sensor that hit an unexpected
\* error has its flag false and its worker stopped, and the worker of every
\* other sensor has run to completion with its messages published.
WorkerErrorIsolated ==
  hpc = "returned" =>
    \A e \in hist.errors :
      /\ e \in DOMAIN sensor_active
      /\ ~sensor_active[e]
      /\ thr[e].pc = "done"
      /\ \A s \in Range(request.sensor_id) \ hist.errors :
           /\ thr[s].pc = "done"
           /\ \A i \in 1..Len(hist.submitted[s]) :
                Count(sink[s], Msg(s, hist.submitted[s][i])) = 1

----------------------------------------------------------------------------
\* The telemetry exemption.

LastDispatched ==
  IF hist.disp = <<>> THEN NoSensor ELSE hist.disp[Len(hist.disp)].s

----------------------------------------------------------------------------
\* The join barrier and the end of the session.

\* C12: in every session the flusher is called exactly once, and only when
\* every worker started for the session has stopped: never twice, never with
\* a worker still running, and once by the time the handler of a validated
\* request has returned.
FlusherOnceAfterJoin ==
  /\ hist.flushes <= 1
  /\ (hpc = "flush" => \A s \in SensorIds : thr[s].pc \in {"none", "done"})
  /\ (hpc = "returned" /\ ~hist.rejected => hist.flushes = 1)

\* C13: when the handler has returned, every sensor of the request has an
\* empty queue and a false flag, and no worker is running.
HandlerReturnsWithNoneAlive ==
  hpc = "returned" =>
    \A s \in DOMAIN sensor_active :
      /\ sensor_dict[s] = <<>>
      /\ ~sensor_active[s]
      /\ thr[s].pc \in {"none", "done"}

\* The positions of a worker between the append of line 138 and the return
\* of __publish_ros_msg.
DispatchPcs == {"rr_load", "rr_store", "rr_pick", "rr_test", "rr_pop", "pub"}

InDispatch == {s \in SensorIds : thr[s].pc \in DispatchPcs}

\* C14: at no time are two worker threads both inside the dispatch step.
SubmitMutualExclusion == Cardinality(InDispatch) <= 1

\* C15: a worker that has stopped has set the flag of its sensor false, and
\* the flag is false only once the worker has stopped, with its manifest
\* exhausted or, in preview mode, after a batch: the worker does not stop
\* while the manifest is open, and the flag does not go back to true.
WorkerStopsInactive ==
  \A s \in DOMAIN sensor_active :
    /\ (thr[s].pc = "done" => ~sensor_active[s])
    /\ (~sensor_active[s] =>
          thr[s].pc = "done" /\ (~is_open(manifests[s]) \/ request.preview))

----------------------------------------------------------------------------
\* The flusher, the cursor and the skip set.

\* The sensor of the next turn of the loop of __flush_sensors (lines 169-170).
FlushTurnSensor == sensor_list[((sensor_index + 1) % Len(sensor_list)) + 1]

FlushTurn ==
  /\ hpc = "flush"
  /\ hloc.k < Len(sensor_list)
  /\ hloc.flushed # Len(sensor_list)

\* C17: a turn of the flusher at a sensor with a non-empty queue publishes
\* the oldest message of that queue on the sink of that sensor and nothing
\* else; a turn at a sensor with an empty queue publishes nothing.
FlusherOnePerNonEmpty ==
  [][FlushTurn =>
       IF sensor_dict[FlushTurnSensor] # <<>>
       THEN sink' = [sink EXCEPT ![FlushTurnSensor] =
                       Append(@, Head(sensor_dict[FlushTurnSensor]))]
       ELSE sink' = sink]_vars

\* C18 as stated: a submit moves the cursor once, so no submit takes a second
\* turn of the scan loop, and the cursor is a valid index of the sensor list.
CursorOncePerSubmit ==
  /\ sensor_list # <<>> => sensor_index \in 0..(Len(sensor_list) - 1)
  /\ \A s \in SensorIds : thr[s].pc \in DispatchPcs => thr[s].k <= 1

\* C18 amended: the cursor is advanced once per candidate the scan looks at:
\* every write of the cursor stores the value the thread read plus one,
\* modulo the number of sensors; a submit that returns has looked at between
\* one and Len(sensor_list) candidates; the cursor is always a valid index.
CursorOncePerCandidate ==
  [][/\ sensor_list' # <<>> => sensor_index' \in 0..(Len(sensor_list') - 1)
     /\ \A s \in SensorIds :
          /\ (thr[s].pc = "rr_store" /\ thr'[s].pc = "rr_pick")
               => sensor_index' = (thr[s].tmp + 1) % Len(sensor_list)
          /\ (thr[s].pc # "pub" /\ thr'[s].pc = "pub")
               => thr'[s].k \in 1..Len(sensor_list)]_vars

\* C18 witness: a submit has dispatched a message on the second turn of its
\* scan, having moved the cursor twice.
SubmitMovedCursorTwice ==
  \E s \in SensorIds : thr[s].pc = "pub" /\ thr[s].k = 2 /\ thr[s].sel # NoMsg

\* The live non-telemetry sensors of line 202, after the step.
LiveNonTelemetryAfter ==
  {k \in DOMAIN sensor_active' :
     ~is_bus_sensor(k) /\ (sensor_dict'[k] # <<>> \/ sensor_active'[k])}

\* C19: after a submit that dispatches a message of sensor s, s is in the
\* skip set, unless it was added to an empty skip set and evicted at once as
\* its oldest entry (at most one live non-telemetry sensor).
SkipSetMembership ==
  [][Len(hist'.disp) > Len(hist.disp) =>
       \/ hist'.disp[Len(hist'.disp)].s \in Range(round_robin')
       \/ (round_robin = <<>> /\ Cardinality(LiveNonTelemetryAfter) <= 1)]_vars

----------------------------------------------------------------------------
\* The skip test of line 148 as a function of its inputs: the skip set, the
\* queues, the flags and the candidate are drawn from all values of their
\* types, and the test is applied once by a worker that is at line 148.

\* Sequences of distinct sensors of the list l.
SkipSets(l) ==
  {rr \in UNION {[1..n -> Range(l)] : n \in 0..Len(l)} :
     \A i, j \in 1..Len(rr) : i # j => rr[i] # rr[j]}

InitSkipRule ==
  /\ request \in {RequestOf(l, RequiredFields, FALSE, "original", "camera") :
                    l \in RequestLists}
  /\ data_store = "fs"
  /\ manifests = [s \in SensorIds |-> <<>>]
  /\ sensor_list = request.sensor_id
  /\ sensor_dict \in [Range(request.sensor_id) -> {<<>>} \cup {<<Msg(s, 1)>> : s \in SensorIds}]
  /\ \A s \in DOMAIN sensor_dict : sensor_dict[s] \in {<<>>, <<Msg(s, 1)>>}
  /\ sensor_active \in [Range(request.sensor_id) -> BOOLEAN]
  /\ sensor_index \in 0..(Len(sensor_list) - 1)
  /\ round_robin \in SkipSets(sensor_list)
  /\ ros_publishers = Range(request.sensor_id)
  /\ hpc = "join"
  /\ hloc = [i |-> 1, k |-> 0, flushed |-> 0, sensor |-> NoSensor, msg |-> NoMsg]
  /\ \E w \in Range(request.sensor_id) : \E n \in 1..Len(sensor_list) :
       /\ sensor_active[w]
       /\ thr = [s \in SensorIds |->
                   IF s = w
                   THEN [ThreadInit EXCEPT !.pc = "rr_test", !.k = n,
                                           !.cand = sensor_list[sensor_index + 1]]
                   ELSE IF s \in DOMAIN sensor_active /\ sensor_active[s]
                        THEN [ThreadInit EXCEPT !.pc = "rec"]
                        ELSE IF s \in DOMAIN sensor_active
                             THEN [ThreadInit EXCEPT !.pc = "done"]
                             ELSE ThreadInit]
  /\ sink = [s \in SensorIds |-> <<>>]
  /\ hist = HistInit
  /\ rosbag_consumer = ConsumerNotStarted

NextSkipRule == \E s \in SensorIds : rr_test(s)

SpecSkipRule == InitSkipRule /\ [][NextSkipRule]_vars

\* The skip rule as the claim states it: the candidate is in the skip set
\* and some other sensor is alive, outside the skip set and not telemetry.
SkipRuleStated(c) ==
  /\ c \in Range(round_robin)
  /\ \E k \in DOMAIN sensor_active :
       /\ k # c
       /\ k \notin Range(round_robin)
       /\ ~is_bus_sensor(k)
       /\ is_sensor_alive(sensor_dict, k)

----------------------------------------------------------------------------
\* The remote read loops: __publish_images_from_s3, __publish_pcl_from_s3 and
\* the fetch process S3Reader. A record is <<n, kind>>: n stands for its
\* locator and its timestamp, kind for what the object at the locator holds
\* ("ok", "nan" for a cloud with a NaN coordinate, "badconv" for an object
\* that cannot be decoded).

CLOSE == "__close__"

ObjectKinds(s) ==
  IF DataTypeOf(s) = PCL_DATA_TYPE THEN {"ok", "nan", "badconv"} ELSE {"ok", "badconv"}

\* The batches with the kind of each record attached.
WithKinds(batches, kinds) ==
  [i \in 1..Len(batches) |->
     [j \in 1..Len(batches[i]) |-> <<batches[i][j], kinds[batches[i][j]]>>]]

\* Lines 294-298 and 366-370: the worker makes the two queues and starts the
\* fetch process.
s3_reader_start(s) ==
  /\ thr[s].pc = "begin"
  /\ data_store = "s3"
  /\ TypeOf(s) \in {IMAGE_DATA_TYPE, PCL_DATA_TYPE}
  /\ thr' = [thr EXCEPT ![s].req = <<>>, ![s].resp = <<>>, ![s].reader = "running",
                        ![s].pc = "s3_cal"]
  /\ UNCHANGED <<rosbag_consumer, request, data_store, manifests, sensor_dict, sensor_list,
                 sensor_active, sensor_index, round_robin, ros_publishers, hpc,
                 hloc, sink, hist>>

\* Lines 300-301 and 372-373: the calibration lookup, made after the fetch
\* process was started; when it raises the exception ends the worker through
\* lines 476-480.
s3_calibration(s) ==
  /\ thr[s].pc = "s3_cal"
  /\ \/ /\ thr' = [thr EXCEPT ![s].pc = "s3_fetch"]
        /\ hist' = hist
     \/ /\ NeedsCalibration(s)
        /\ thr' = [thr EXCEPT ![s].pc = "done", ![s].failed = TRUE]
        /\ hist' = [hist EXCEPT !.errors = @ \cup {s}]
  /\ UNCHANGED <<rosbag_consumer, request, data_store, manifests, sensor_dict, sensor_list,
                 sensor_active, sensor_index, round_robin, ros_publishers, hpc,
                 hloc, sink>>

\* Lines 303-308 and 375-380: the fetch loop of the remote read loops.
s3_fetch(s) ==
  /\ thr[s].pc = "s3_fetch"
  /\ IF is_open(manifests[s])
     THEN /\ manifests' = [manifests EXCEPT ![s] = Tail(@)]
          /\ thr' = [thr EXCEPT ![s].files = Head(manifests[s]),
                                ![s].toput = Head(manifests[s]),
                                ![s].pc = IF Head(manifests[s]) # <<>> THEN "s3_put"
                                          ELSE "s3_fetch",
                                ![s].nbatch = IF Head(manifests[s]) # <<>> THEN @ + 1 ELSE @]
     ELSE /\ thr' = [thr EXCEPT ![s].pc = "s3_close"]
          /\ UNCHANGED manifests
  /\ UNCHANGED <<rosbag_consumer, request, data_store, sensor_dict, sensor_list, sensor_active,
                 sensor_index, round_robin, ros_publishers, hpc, hloc, sink, hist>>

\* A variant of the put loop that puts every locator on req twice.
s3_put_twice(s) ==
  /\ thr[s].pc = "s3_put"
  /\ IF thr[s].toput # <<>>
     THEN thr' = [thr EXCEPT ![s].req = Append(Append(@, Head(thr[s].toput)),
                                                Head(thr[s].toput)),
                             ![s].toput = Tail(@)]
     ELSE thr' = [thr EXCEPT ![s].pc = "s3_rec"]
  /\ UNCHANGED <<rosbag_consumer, request, data_store, manifests, sensor_dict, sensor_list,
                 sensor_active, sensor_index, round_robin, ros_publishers, hpc,
                 hloc, sink, hist>>

\* Lines 310-313 and 382-385: one turn of the loop that puts the locators of
\* the batch on req; req = Queue() has no maximum size, so put never blocks.
s3_put(s) ==
  /\ thr[s].pc = "s3_put"
  /\ IF thr[s].toput # <<>>
     THEN thr' = [thr EXCEPT ![s].req = Append(@, Head(thr[s].toput)),
                             ![s].toput = Tail(@)]
     ELSE thr' = [thr EXCEPT ![s].pc = "s3_rec"]
  /\ UNCHANGED <<rosbag_consumer, request, data_store, manifests, sensor_dict, sensor_list,
                 sensor_active, sensor_index, round_robin, ros_publishers, hpc,
                 hloc, sink, hist>>

\* The fetch process: it takes the next entry of req, ends on the close
\* marker, and otherwise fetches the object and puts the path of its local
\* copy on resp (the path stands for the object it holds).
s3_reader_step(s) ==
  /\ thr[s].reader = "running"
  /\ thr[s].req # <<>>
  /\ IF Head(thr[s].req) = CLOSE
     THEN thr' = [thr EXCEPT ![s].req = Tail(@), ![s].reader = "exited"]
     ELSE thr' = [thr EXCEPT ![s].req = Tail(@),
                             ![s].resp = Append(@, Head(thr[s].req))]
  /\ UNCHANGED <<rosbag_consumer, request, data_store, manifests, sensor_dict, sensor_list,
                 sensor_active, sensor_index, round_robin, ros_publishers, hpc,
                 hloc, sink, hist>>

\* What reading the object of the given kind comes to in the remote loop:
\* cv2 is not imported by the module, so cv2.imread (line 276) raises
\* NameError for every image; np.load and parse_pcl_npz (lines 350-353) give
\* the cloud the object holds.
S3Outcome(s, kind) ==
  IF TypeOf(s) = IMAGE_DATA_TYPE THEN "badconv" ELSE kind

\* Lines 273-290 and 347-362: one turn of `for f in files`: resp.get blocks
\* until the fetch process has put a path; the message is built from the
\* object at that path and the timestamp f[2] of the loop's record.
s3_record(s) ==
  /\ thr[s].pc = "s3_rec"
  /\ thr[s].files # <<>>
  /\ thr[s].resp # <<>>
  /\ LET f == Head(thr[s].files)
         path == Head(thr[s].resp)
         kind == S3Outcome(s, path[2])
         h == [hist EXCEPT !.handled[s] = Append(@, f),
                           !.last[s] = <<f, kind>>,
                           !.nan[s] = IF kind = "nan" THEN @ \cup {f} ELSE @]
     IN /\ thr' = [thr EXCEPT ![s].files = Tail(@), ![s].resp = Tail(@)]
        /\ IF RecordFate(s, kind) = "submit"
           THEN Submit(s, <<s, path, f[1]>>, h)
           ELSE /\ hist' = h
                /\ UNCHANGED <<sensor_dict, sensor_index, sink, round_robin>>
  /\ UNCHANGED <<rosbag_consumer, request, data_store, manifests, sensor_list, sensor_active,
                 ros_publishers, hpc, hloc>>

\* Lines 320-321 and 391-392: the end of a batch.
s3_batch_done(s) ==
  /\ thr[s].pc = "s3_rec"
  /\ thr[s].files = <<>>
  /\ thr' = [thr EXCEPT ![s].pc = IF request.preview THEN "s3_close" ELSE "s3_fetch"]
  /\ UNCHANGED <<rosbag_consumer, request, data_store, manifests, sensor_dict, sensor_list,
                 sensor_active, sensor_index, round_robin, ros_publishers, hpc,
                 hloc, sink, hist>>

\* Lines 323 and 394: req.put("__close__").
s3_close(s) ==
  /\ thr[s].pc = "s3_close"
  /\ thr' = [thr EXCEPT ![s].req = Append(@, CLOSE), ![s].closes = @ + 1,
                        ![s].pc = "s3_join"]
  /\ UNCHANGED <<rosbag_consumer, request, data_store, manifests, sensor_dict, sensor_list,
                 sensor_active, sensor_index, round_robin, ros_publishers, hpc,
                 hloc, sink, hist>>

\* Lines 324-326 and 395-397: join(timeout=2) returns when the fetch process
\* has exited, or at the timeout, and then the process is terminated.
s3_join(s) ==
  /\ thr[s].pc = "s3_join"
  /\ thr[s].reader \in {"running", "exited"}
  /\ thr' = [thr EXCEPT ![s].reader = IF @ = "running" THEN "terminated" ELSE @,
                        ![s].pc = "deact"]
  /\ UNCHANGED <<rosbag_consumer, request, data_store, manifests, sensor_dict, sensor_list,
                 sensor_active, sensor_index, round_robin, ros_publishers, hpc,
                 hloc, sink, hist>>

\* Requests of one remote image or point-cloud sensor.
PrefetchRequests ==
  {RequestOf(<<"cam">>, RequiredFields, pv, im, "camera") :
     pv \in BOOLEAN, im \in {"original", "undistorted"}}
  \cup {RequestOf(<<"lidar">>, RequiredFields, pv, "original", lv) :
          pv \in BOOLEAN, lv \in {"camera", "vehicle"}}

InitPrefetch ==
  /\ request \in PrefetchRequests
  /\ data_store = "s3"
  /\ \E sz \in BatchSizes : \E kinds \in [1..SeqSum(sz) -> ObjectKinds(request.sensor_id[1])] :
       manifests = [s \in SensorIds |->
                      IF s = request.sensor_id[1]
                      THEN WithKinds(BatchesFrom(sz, 1), kinds) ELSE <<>>]
  /\ sensor_dict = <<>>
  /\ sensor_list = <<>>
  /\ sensor_active = <<>>
  /\ sensor_index = 0
  /\ round_robin = <<>>
  /\ ros_publishers = {}
  /\ hpc = "recv"
  /\ hloc = [i |-> 0, k |-> 0, flushed |-> 0, sensor |-> NoSensor, msg |-> NoMsg]
  /\ thr = [s \in SensorIds |-> ThreadInit]
  /\ sink = [s \in SensorIds |-> <<>>]
  /\ hist = HistInit
  /\ rosbag_consumer = ConsumerNotStarted

NextPrefetch ==
  \/ data_request_cb
  \/ init_request
  \/ start_worker
  \/ join_worker
  \/ flush_sensors
  \/ \E s \in SensorIds :
       \/ s3_reader_start(s)
       \/ s3_calibration(s)
       \/ s3_fetch(s)
       \/ s3_put(s)
       \/ s3_reader_step(s)
       \/ s3_record(s)
       \/ s3_batch_done(s)
       \/ s3_close(s)
       \/ s3_join(s)
       \/ deactivate(s)

SpecPrefetch == InitPrefetch /\ [][NextPrefetch]_vars

\* The messages of a loop that fetches and converts the records recs one at
\* a time: each record that converts gives one message, with its own
\* timestamp, in the order of the records.
RECURSIVE SyncLoop(_, _)
SyncLoop(s, recs) ==
  IF recs = <<>> THEN <<>>
  ELSE (IF Head(recs)[2] = "ok" THEN <<<<s, Head(recs), Head(recs)[1]>>>> ELSE <<>>)
       \o SyncLoop(s, Tail(recs))

\* C11: the messages the remote loop of a sensor has delivered are those of
\* the synchronous loop over the records it has been through, in the same
\* order and each with the timestamp of its own record.
PrefetchEquivalent ==
  \A s \in DOMAIN sensor_active : sink[s] = SyncLoop(s, hist.handled[s])

\* C16: the close marker is put at most once and after every locator, and a
\* worker that has returned after starting a fetch process has put it once
\* and has left the process exited or terminated.
PrefetchShutdown ==
  \A s \in DOMAIN sensor_active :
    /\ thr[s].closes <= 1
    /\ \A i \in 1..Len(thr[s].req) : thr[s].req[i] = CLOSE => i = Len(thr[s].req)
    /\ (thr[s].closes = 1 => thr[s].toput = <<>>)
    /\ (thr[s].pc = "done" /\ thr[s].reader # "none"
          => thr[s].closes = 1 /\ thr[s].reader \in {"exited", "terminated"})

\* The locators a worker has put that no resp.get has taken yet: those the
\* fetch process has answered (on resp) followed by those it has not (on req).
Outstanding(s) ==
  thr[s].resp \o SelectSeq(thr[s].req, LAMBDA x : x # CLOSE)

PrefetchFlowState ==
  \A s \in DOMAIN sensor_active :
    IF thr[s].pc \in {"s3_put", "s3_rec"}
    THEN /\ Len(Outstanding(s)) = Len(thr[s].files) - Len(thr[s].toput)
         /\ Outstanding(s) = SubSeq(thr[s].files, 1, Len(Outstanding(s)))
    ELSE Outstanding(s) = <<>>

\* C21: while a batch is being put or processed the locators put and not yet
\* taken are exactly the first records still to process of that batch (so at
\* most the batch, and none of another batch), none is outstanding between
\* batches, and a response is taken only once the whole batch has been put,
\* one response for one record.
PrefetchFlowControl ==
  [][/\ PrefetchFlowState'
     /\ \A s \in SensorIds :
          thr'[s].resp # thr[s].resp /\ Len(thr'[s].resp) <= Len(thr[s].resp)
          => /\ thr[s].pc = "s3_rec"
             /\ thr[s].toput = <<>>
             /\ thr'[s].resp = Tail(thr[s].resp)
             /\ thr'[s].files = Tail(thr[s].files)
             /\ Head(thr[s].resp) = Head(thr[s].files)]_vars

PrefetchSecondBatchPending ==
  \E s \in DOMAIN sensor_active :
    /\ thr[s].pc = "s3_rec"
    /\ thr[s].nbatch = 2
    /\ Len(thr[s].files) = 2
    /\ Len(thr[s].resp) = 2
    /\ Len(hist.handled[s]) >= 1

----------------------------------------------------------------------------
\* Order at the sinks under the interleaved dispatcher.

\* The position of the message m in the order its worker submitted the
\* messages of sensor s (0 when it was not submitted).
SubmitPos(s, m) ==
  LET at == {i \in 1..Len(hist.submitted[s]) : Msg(s, hist.submitted[s][i]) = m}
  IN IF at = {} THEN 0 ELSE CHOOSE i \in at : \A j \in at : i <= j

\* C22: on the sink of every sensor a message never comes after one that its
\* worker submitted later.
PerSensorOrder ==
  \A s \in DOMAIN sensor_dict :
    \A i, j \in 1..Len(sink[s]) :
      i < j => SubmitPos(s, sink[s][i]) <= SubmitPos(s, sink[s][j])

\* C23: no thread has popped from an empty sensor queue, and no submit whose
\* scan began with some queue non-empty has ended its scan with no message
\* selected.
ScanAlwaysSelects ==
  /\ ~hist.popEmpty
  /\ \A s \in SensorIds :
       thr[s].pc = "pub" /\ thr[s].ready => thr[s].sel # NoMsg

----------------------------------------------------------------------------
\* The dispatcher when submit calls run one at a time.

\* C24: a submit publishes the message it was given on the sink of its
\* sensor and nothing else, and leaves every sensor queue empty; every queue
\* is empty between submits.
SerializedSubmitPublishesOwn ==
  [][/\ \A k \in DOMAIN sensor_dict' : sensor_dict'[k] = <<>>
     /\ \A s \in SensorIds :
          hist'.submitted[s] # hist.submitted[s]
          => /\ Len(hist'.submitted[s]) = Len(hist.submitted[s]) + 1
             /\ sink' = [sink EXCEPT ![s] =
                           Append(@, Msg(s, hist'.submitted[s][Len(hist'.submitted[s])]))]
             /\ Len(hist'.disp) = Len(hist.disp) + 1
             /\ hist'.disp[Len(hist'.disp)].s = s]_vars

\* Both sensors of a two-sensor session have submitted, the first sensor of
\* the list first: its scan, from cursor 0, went past the empty slot of the
\* second sensor before it reached its own.
SubmitsOfTwoSensorsPublished ==
  /\ Len(sensor_list) = 2
  /\ Len(hist.disp) = 2
  /\ hist.disp[1].s = sensor_list[1]
  /\ hist.disp[2].s = sensor_list[2]
  /\ \A s \in DOMAIN sensor_dict :
       hist.submitted[s] # <<>> /\ sink[s] = <<Msg(s, hist.submitted[s][1])>>

----------------------------------------------------------------------------
\* Bag replay in remote mode: RosbagConsumer.run (rosbag_consumer.py) with
\* s3 = True. A bag message of the topic is <<"bag", i>>; the response the
\* fetch process gives for a bag stands for its local copy. Opening and reading a bag are
\* taken to succeed.

nodeVars == <<request, data_store, manifests, sensor_dict, sensor_list,
              sensor_active, sensor_index, round_robin, ros_publishers, hpc,
              hloc, thr, sink, hist>>

\* The response topic: the bag messages, then the close message.
Topics ==
  {[i \in 1..(n + 1) |-> IF i <= n THEN <<"bag", i>> ELSE CLOSE] : n \in 0..MaxBags}

\* Lines 142-146: run() starts the fetch process and the delete process.
run_start ==
  /\ rosbag_consumer.pc = "start"
  /\ rosbag_consumer' = [rosbag_consumer EXCEPT !.s3_reader = "running",
                                                !.s3_deleter = "running",
                                                !.pc = "loop"]
  /\ UNCHANGED nodeVars

\* Lines 148-157: `for msg in consumer` takes the next message of the topic
\* (it waits while there is none); the close message ends the loop, any
\* other message goes to publish_bag.
run_consume ==
  /\ rosbag_consumer.pc = "loop"
  /\ rosbag_consumer.topic # <<>>
  /\ rosbag_consumer' = [rosbag_consumer EXCEPT
                           !.topic = Tail(@),
                           !.msg = Head(rosbag_consumer.topic),
                           !.pc = IF Head(rosbag_consumer.topic) = CLOSE
                                  THEN "close" ELSE "publish_bag"]
  /\ UNCHANGED nodeVars

\* Lines 110-115: publish_bag puts the locator of the bag on s3_read_req;
\* line 116 then calls read_s3().
publish_bag ==
  /\ rosbag_consumer.pc = "publish_bag"
  /\ rosbag_consumer' = [rosbag_consumer EXCEPT
                           !.s3_read_req = Append(@, rosbag_consumer.msg),
                           !.requested = Append(@, rosbag_consumer.msg),
                           !.pc = "read_s3"]
  /\ UNCHANGED nodeVars

\* Lines 85-107: read_s3 takes one response with get(block=drain), publishes
\* the messages of the bag and puts the response on s3_delete_req. With
\* drain false an empty queue raises Empty, which line 101 passes over; with
\* drain true the get waits until there is a response. The call of line 116
\* returns to the loop of run(), the call of line 167 goes on to line 169.
read_s3(drain) ==
  /\ rosbag_consumer.pc = IF drain THEN "drain" ELSE "read_s3"
  /\ IF rosbag_consumer.s3_read_resp # <<>>
     THEN rosbag_consumer' = [rosbag_consumer EXCEPT
                                !.s3_read_resp = Tail(@),
                                !.published = Append(@, Head(rosbag_consumer.s3_read_resp)),
                                !.s3_delete_req = Append(@, Head(rosbag_consumer.s3_read_resp)),
                                !.pc = IF drain THEN "join_reader" ELSE "loop"]
     ELSE /\ ~drain
          /\ rosbag_consumer' = [rosbag_consumer EXCEPT !.pc = "loop"]
  /\ UNCHANGED nodeVars

\* Lines 164-166: after the loop run() puts the close marker on s3_read_req
\* and sleeps; line 167 then calls read_s3(drain=True).
run_close ==
  /\ rosbag_consumer.pc = "close"
  /\ rosbag_consumer' = [rosbag_consumer EXCEPT !.s3_read_req = Append(@, CLOSE),
                                                !.pc = "drain"]
  /\ UNCHANGED nodeVars

\* Lines 169-171: join(timeout=2) returns when the fetch process has exited,
\* or at the timeout, and then the process is terminated.
run_join_reader ==
  /\ rosbag_consumer.pc = "join_reader"
  /\ rosbag_consumer.s3_reader \in {"running", "exited"}
  /\ rosbag_consumer' = [rosbag_consumer EXCEPT
                           !.s3_reader = IF @ = "running" THEN "terminated" ELSE @,
                           !.pc = "close_deleter"]
  /\ UNCHANGED nodeVars

\* Lines 173-174: the close marker for the delete process.
run_close_deleter ==
  /\ rosbag_consumer.pc = "close_deleter"
  /\ rosbag_consumer' = [rosbag_consumer EXCEPT !.s3_delete_req = Append(@, CLOSE),
                                                !.pc = "join_deleter"]
  /\ UNCHANGED nodeVars

\* Lines 175-177: the join and terminate of the delete process; the rest of
\* run() (lines 182-185) closes the consumer and deletes the topic.
run_join_deleter ==
  /\ rosbag_consumer.pc = "join_deleter"
  /\ rosbag_consumer.s3_deleter \in {"running", "exited"}
  /\ rosbag_consumer' = [rosbag_consumer EXCEPT
                           !.s3_deleter = IF @ = "running" THEN "terminated" ELSE @,
                           !.pc = "done"]
  /\ UNCHANGED nodeVars

\* The fetch process on s3_read_req and s3_read_resp: one response for each
\* request, in the order of the requests, and none for the close marker, on
\* which it exits.
s3_reader_run ==
  /\ rosbag_consumer.s3_reader = "running"
  /\ rosbag_consumer.s3_read_req # <<>>
  /\ rosbag_consumer' =
       IF Head(rosbag_consumer.s3_read_req) = CLOSE
       THEN [rosbag_consumer EXCEPT !.s3_read_req = Tail(@), !.s3_reader = "exited"]
       ELSE [rosbag_consumer EXCEPT
               !.s3_read_req = Tail(@),
               !.s3_read_resp = Append(@, Head(rosbag_consumer.s3_read_req))]
  /\ UNCHANGED nodeVars

\* The delete process on s3_delete_req: it removes the object each entry
\* names and exits on the close marker.
s3_deleter_run ==
  /\ rosbag_consumer.s3_deleter = "running"
  /\ rosbag_consumer.s3_delete_req # <<>>
  /\ rosbag_consumer' =
       IF Head(rosbag_consumer.s3_delete_req) = CLOSE
       THEN [rosbag_consumer EXCEPT !.s3_delete_req = Tail(@), !.s3_deleter = "exited"]
       ELSE [rosbag_consumer EXCEPT !.s3_delete_req = Tail(@)]
  /\ UNCHANGED nodeVars

InitBag ==
  /\ \E tp \in Topics :
       rosbag_consumer = [ConsumerNotStarted EXCEPT !.pc = "start", !.topic = tp]
  /\ request = RequestOf(<<>>, {}, FALSE, "original", "camera")
  /\ data_store = "s3"
  /\ manifests = [s \in SensorIds |-> <<>>]
  /\ sensor_dict = <<>>
  /\ sensor_list = <<>>
  /\ sensor_active = <<>>
  /\ sensor_index = 0
  /\ round_robin = <<>>
  /\ ros_publishers = {}
  /\ hpc = "none"
  /\ hloc = [i |-> 0, k |-> 0, flushed |-> 0, sensor |-> NoSensor, msg |-> NoMsg]
  /\ thr = [s \in SensorIds |-> ThreadInit]
  /\ sink = [s \in SensorIds |-> <<>>]
  /\ hist = HistInit

NextBag ==
  \/ run_start
  \/ run_consume
  \/ publish_bag
  \/ read_s3(FALSE)
  \/ run_close
  \/ read_s3(TRUE)
  \/ run_join_reader
  \/ run_close_deleter
  \/ run_join_deleter
  \/ s3_reader_run
  \/ s3_deleter_run

SpecBag == InitBag /\ [][NextBag]_vars

\* The requests the fetch process has not answered yet.
Unanswered ==
  IF rosbag_consumer.s3_reader = "running"
  THEN SelectSeq(rosbag_consumer.s3_read_req, LAMBDA x : x # CLOSE)
  ELSE <<>>

\* C25: no bag is published twice, when run() has finished every bag it
\* requested has been published once, and the read of line 167 is never
\* waiting with no response on the queue and none to come.
BagReplayComplete ==
  /\ \A b \in Range(rosbag_consumer.requested) :
       Count(rosbag_consumer.published, b) <= 1
  /\ (rosbag_consumer.pc = "done"
        => \A b \in Range(rosbag_consumer.requested) :
             Count(rosbag_consumer.published, b) = 1)
  /\ ~(/\ rosbag_consumer.pc = "drain"
       /\ rosbag_consumer.s3_read_resp = <<>>
       /\ Unanswered = <<>>)

====
